---------------------------- MODULE Spec2Model ----------------------------
(***************************************************************************)
(* A model of photonlib.py: the voxel addressing of class Meta, the        *)
(* volumetric view, the range-compression codec and the gradient queries   *)
(* of class PhotonLib, and the temporary override of Meta.lib.             *)
(*                                                                         *)
(* Real numbers are exact fractions [n, d] (d > 0); a float whose scaled   *)
(* offset exceeds the int64 range (1e30, inf) is the fraction with d = 0.  *)
(* Axes are 0, 1, 2 as in the source.                                      *)
(***************************************************************************)
EXTENDS Integers, Sequences, FiniteSets, TLC

\* ------------------------------------------------------------- bounds
MaxDim == 2        \* voxels per axis: 1..MaxDim
CoordMax == 2      \* finite coordinates are k/CoordDen, |k| <= CoordMax
CoordDen == 2
MaxPmts == 2       \* sensors of an array handed to view/save: 1..MaxPmts
MaxIter == 1       \* iterations n of self_check: 0..MaxIter
NumCallers == 2    \* concurrent callers of the interleaved specification
MaxExp == 2        \* exponents of the codec's inputs: -MaxExp..MaxExp

Axes == 0..2
Libs == {"np", "torch"}
None == "None"

VARIABLES
    shape,        \* Meta.shape
    ranges,       \* Meta.ranges: ranges[axis] = <<min, max>>
    lib,          \* Meta.lib
    grad_cache,   \* PhotonLib.grad_cache
    pc,           \* pc[t]: the line caller t stands at ("idle", "done", "L224", ...)
    frame,        \* frame[t]: caller t's call: operation, arguments, locals, result
    lib0          \* Meta.lib as constructed (history)

vars == <<shape, ranges, lib, grad_cache, pc, frame, lib0>>

\* ---------------------------------------------------------- fractions
Frac(n, d) == [n |-> n, d |-> d]
I2F(i) == Frac(i, 1)
PosHuge == Frac(1, 0)
NegHuge == Frac(-1, 0)
IsHuge(x) == x.d = 0

FAdd(x, y) == IF IsHuge(x) THEN x ELSE Frac(x.n * y.d + y.n * x.d, x.d * y.d)
FSub(x, y) == IF IsHuge(x) THEN x ELSE Frac(x.n * y.d - y.n * x.d, x.d * y.d)
FMul(x, y) == Frac(x.n * y.n, x.d * y.d)
\* division by a positive fraction
FDiv(x, y) == IF IsHuge(x) THEN x ELSE Frac(x.n * y.d, x.d * y.n)
FLt(x, y) == x.n * y.d < y.n * x.d
FLe(x, y) == x.n * y.d <= y.n * x.d
FEq(x, y) == x.n * y.d = y.n * x.d
FAbs(x) == IF x.n < 0 THEN Frac(-x.n, x.d) ELSE x

\* ------------------------------------------------------ class Meta
nx == shape[0]
ny == shape[1]
nz == shape[2]

\* Meta.__len__
len_meta == shape[0] * shape[1] * shape[2]

\* Meta.voxel_size: diff(ranges) / shape
voxel_size == [a \in Axes |-> Frac(ranges[a][2] - ranges[a][1], shape[a])]

\* Meta.norm_step_size: 2 / shape
norm_step_size == [a \in Axes |-> Frac(2, shape[a])]

\* Meta.idx_to_voxel
idx_to_voxel_yfast(idx) == idx[2] + idx[1] * nz + idx[0] * nz * ny
idx_to_voxel(idx) == idx[0] + idx[1] * nx + idx[2] * nx * ny

\* floor division, as lib.floor_divide and lib.div(rounding_mode='floor')
fdiv(a, b) == a \div b

\* Meta.voxel_to_idx
voxel_to_idx(voxel) ==
    [a \in Axes |-> CASE a = 0 -> voxel % nx
                      [] a = 1 -> fdiv(voxel, nx) % ny
                      [] a = 2 -> fdiv(voxel, nx * ny)]

\* Meta.check_valid_idx
check_valid_idx(idx) == \A a \in Axes : idx[a] >= 0 /\ idx[a] < shape[a]

\* Meta.idx_to_coord
idx_to_coord_edge(idx, norm) ==
    IF norm
    THEN [a \in Axes |-> FSub(FMul(FDiv(I2F(idx[a]), I2F(shape[a])), I2F(2)), I2F(1))]
    ELSE [a \in Axes |-> FAdd(FMul(I2F(idx[a]), voxel_size[a]), I2F(ranges[a][1]))]
idx_to_coord(idx, norm) ==
    IF norm
    THEN [a \in Axes |->
            FSub(FMul(FDiv(Frac(2 * idx[a] + 1, 2), I2F(shape[a])), I2F(2)), I2F(1))]
    ELSE [a \in Axes |->
            FAdd(FMul(Frac(2 * idx[a] + 1, 2), voxel_size[a]), I2F(ranges[a][1]))]

\* Meta.voxel_to_coord
voxel_to_coord(voxel, norm) == idx_to_coord(voxel_to_idx(voxel), norm)

\* Meta.as_int64: astype(int64) truncates toward zero.  A value outside the
\* int64 range has no defined result: the x86-64 conversion yields the
\* "integer indefinite" value -2^63, a saturating conversion yields the
\* nearest bound.  Int64Min and Int64Max stand for -2^63 and 2^63-1 (only
\* their order relative to 0 and to shape is used).
Int64Min == -2147483647
Int64Max == 2147483647
CastModes == {"indefinite", "saturate"}
Trunc(x) == IF x.n >= 0 THEN x.n \div x.d ELSE -((-x.n) \div x.d)
as_int64(x, cast) ==
    IF IsHuge(x)
    THEN IF cast = "saturate" /\ x.n > 0 THEN Int64Max ELSE Int64Min
    ELSE Trunc(x)

\* Meta.coord_to_idx, lines 136-140: idx[idx<0] = 0; idx[idx>=n] = n-1
clip(i, n) == IF i < 0 THEN 0 ELSE IF i >= n THEN n - 1 ELSE i

\* Meta.coord_to_idx
coord_to_idx(coord, norm, cast) ==
    [a \in Axes |->
        LET raw == IF norm
                   THEN FDiv(FAdd(coord[a], I2F(1)), norm_step_size[a])
                   ELSE FDiv(FSub(coord[a], I2F(ranges[a][1])), voxel_size[a])
        IN clip(as_int64(raw, cast), shape[a])]

\* Meta.coord_to_voxel
coord_to_voxel(coord, norm, cast) == idx_to_voxel(coord_to_idx(coord, norm, cast))

\* list.pop(i) on axis_others
RemoveAt(s, i) == [k \in 1..(Len(s) - 1) |-> IF k < i + 1 THEN s[k] ELSE s[k + 1]]

\* Meta.select_axis.  A selector is [int |-> i], [str |-> s] or [float |-> i]
\* (the float i.0).  The result is [err |-> "none", axis, axis_others] or
\* [err |-> the exception raised].
axis_to_num == [x |-> 0, y |-> 1, z |-> 2]
IsInt(axis) == DOMAIN axis = {"int"}
IsStr(axis) == DOMAIN axis = {"str"}
IsFloat(axis) == DOMAIN axis = {"float"}
select_axis_default(axis) ==
    LET ax == IF IsStr(axis) /\ axis.str \in DOMAIN axis_to_num
              THEN [int |-> axis_to_num[axis.str]]
              ELSE axis
    IN IF IsInt(ax) /\ ax.int \in {0, 1, 2}
       THEN [err |-> "none", axis |-> ax.int, axis_others |-> RemoveAt(<<0, 1, 2>>, ax.int)]
       ELSE [err |-> "none", axis |-> 0, axis_others |-> <<1, 2>>]
select_axis(axis) ==
    LET ax == IF IsStr(axis) /\ axis.str \in DOMAIN axis_to_num
              THEN [int |-> axis_to_num[axis.str]]
              ELSE axis
        inlist == \/ IsInt(ax) /\ ax.int \in {0, 1, 2}
                  \/ IsFloat(ax) /\ ax.float \in {0, 1, 2}
    IN IF ~inlist THEN [err |-> "IndexError"]
       ELSE IF IsFloat(ax) THEN [err |-> "TypeError"]
       ELSE [err |-> "none", axis |-> ax.int,
             axis_others |-> RemoveAt(<<0, 1, 2>>, ax.int)]

\* Meta.idx_at: the indices of the slab idx[axis] = i
idx_at(axis, i) ==
    LET sel == select_axis(axis)
    IN IF sel.err # "none" THEN [err |-> sel.err]
       ELSE [err |-> "none",
             ret |-> {idx \in [Axes -> 0..MaxDim] :
                        /\ idx[sel.axis] = i
                        /\ \A k \in 1..2 : idx[sel.axis_others[k]] < shape[sel.axis_others[k]]}]

\* Meta.digitize (x an array of one element)
digitize(x, axis, norm, cast) ==
    LET sel == select_axis(axis)
    IN IF sel.err # "none" THEN [err |-> sel.err]
       ELSE LET n == shape[sel.axis]
                raw == IF norm
                       THEN FDiv(FSub(x, I2F(-1)), norm_step_size[sel.axis])
                       ELSE FDiv(FSub(x, I2F(ranges[sel.axis][1])), voxel_size[sel.axis])
            IN [err |-> "none", ret |-> clip(as_int64(raw, cast), n)]

\* ------------------------------------------------------------ inputs
Callers == 1..NumCallers
Main == CHOOSE t \in Callers : \A u \in Callers : t <= u
Shapes == [Axes -> 1..MaxDim]
RangeChoices ==
    { [a \in Axes |-> <<-1, 1>>],
      [a \in Axes |-> IF a = 0 THEN <<0, 1>> ELSE IF a = 1 THEN <<-1, 0>> ELSE <<-1, 1>>],
      [a \in Axes |-> IF a = 0 THEN <<-1, 0>> ELSE IF a = 1 THEN <<-1, 1>> ELSE <<0, 1>>] }
Coord1 == {Frac(k, CoordDen) : k \in -CoordMax..CoordMax} \cup {PosHuge, NegHuge}
Coords == [Axes -> Coord1]
Selectors == {[int |-> i] : i \in -1..3} \cup {[str |-> s] : s \in {"x", "y", "z", "w", "X"}}
                \cup {[float |-> i] : i \in {1, 3}}

NoFrame == [op |-> "none"]
Idle(t) == pc[t] = "idle"
Finish(t, f) ==
    /\ pc' = [pc EXCEPT ![t] = "done"]
    /\ frame' = [frame EXCEPT ![t] = f]

\* ------------------------------------------- calls of the addressing
VoxelToIdx(t) ==
    /\ Idle(t)
    /\ \E v \in 0..(len_meta - 1) :
         Finish(t, [op |-> "voxel_to_idx", voxel |-> v, err |-> "none",
                    ret |-> voxel_to_idx(v)])
    /\ UNCHANGED <<shape, ranges, lib, grad_cache, lib0>>

IdxToVoxel(t) ==
    /\ Idle(t)
    /\ \E idx \in [Axes -> 0..(MaxDim - 1)] :
         /\ check_valid_idx(idx)
         /\ Finish(t, [op |-> "idx_to_voxel", idx |-> idx, err |-> "none",
                       ret |-> idx_to_voxel(idx)])
    /\ UNCHANGED <<shape, ranges, lib, grad_cache, lib0>>

CoordToIdx(t) ==
    /\ Idle(t)
    /\ \E coord \in Coords, norm \in BOOLEAN, cast \in CastModes :
         Finish(t, [op |-> "coord_to_idx", coord |-> coord, norm |-> norm,
                    err |-> "none", ret |-> coord_to_idx(coord, norm, cast)])
    /\ UNCHANGED <<shape, ranges, lib, grad_cache, lib0>>

CoordToVoxel(t) ==
    /\ Idle(t)
    /\ \E coord \in Coords, norm \in BOOLEAN, cast \in CastModes :
         Finish(t, [op |-> "coord_to_voxel", coord |-> coord, norm |-> norm,
                    err |-> "none", ret |-> coord_to_voxel(coord, norm, cast)])
    /\ UNCHANGED <<shape, ranges, lib, grad_cache, lib0>>

SelectAxis(t) ==
    /\ Idle(t)
    /\ \E axis \in Selectors :
         LET sel == select_axis(axis)
         IN Finish(t, IF sel.err # "none"
                      THEN [op |-> "select_axis", axis |-> axis, err |-> sel.err]
                      ELSE [op |-> "select_axis", axis |-> axis, err |-> "none",
                            axis_ret |-> sel.axis, axis_others |-> sel.axis_others])
    /\ UNCHANGED <<shape, ranges, lib, grad_cache, lib0>>

IdxAt(t) ==
    /\ Idle(t)
    /\ \E axis \in Selectors, i \in 0..(MaxDim - 1) :
         Finish(t, [op |-> "idx_at", axis |-> axis, i |-> i] @@ idx_at(axis, i))
    /\ UNCHANGED <<shape, ranges, lib, grad_cache, lib0>>

Digitize(t) ==
    /\ Idle(t)
    /\ \E x \in Coord1, axis \in Selectors, norm \in BOOLEAN, cast \in CastModes :
         Finish(t, [op |-> "digitize", x |-> x, axis |-> axis, norm |-> norm]
                     @@ digitize(x, axis, norm, cast))
    /\ UNCHANGED <<shape, ranges, lib, grad_cache, lib0>>

\* ------------------------------------- the override of the backend
\* Meta.use_lib is entered by `with meta.use_lib(lib):` and runs line by
\* line; other callers may run between two lines.
\* line 224 (call and prev_lib = self.lib)
UseLib(t) ==
    /\ Idle(t)
    /\ \E l \in Libs, raises \in BOOLEAN :
         frame' = [frame EXCEPT ![t] =
                     [op |-> "use_lib", lib_arg |-> l, body_raises |-> raises,
                      entry_lib |-> lib, prev_lib |-> lib, seen |-> None,
                      err |-> "none"]]
    /\ pc' = [pc EXCEPT ![t] = "L225"]
    /\ UNCHANGED <<shape, ranges, lib, grad_cache, lib0>>

\* PhotonLib._gradient_on_fly, line 337: with self.meta.use_lib(np)
GradientOnFly(t) ==
    /\ Idle(t)
    /\ \E v \in 0..(len_meta - 1) :
         frame' = [frame EXCEPT ![t] =
                     [op |-> "_gradient_on_fly", voxel_id |-> v, lib_arg |-> "np",
                      body_raises |-> FALSE, cache |-> grad_cache,
                      entry_lib |-> lib, prev_lib |-> lib, seen |-> None,
                      err |-> "none"]]
    /\ pc' = [pc EXCEPT ![t] = "L225"]
    /\ UNCHANGED <<shape, ranges, lib, grad_cache, lib0>>

\* PhotonLib.gradient_from_cache
gradient_from_cache_nocheck(cache, voxel_id) ==
    [err |-> "none", ret |-> <<cache, voxel_id>>]
gradient_from_cache(cache, voxel_id) ==
    IF cache = None
    THEN [err |-> "NameError"]     \* raise RunTimeError(...): the name is undefined
    ELSE [err |-> "none", ret |-> <<cache, voxel_id>>]

GradientFromCache(t) ==
    /\ Idle(t)
    /\ \E v \in 0..(len_meta - 1) :
         Finish(t, [op |-> "gradient_from_cache", voxel_id |-> v, cache |-> grad_cache]
                     @@ gradient_from_cache(grad_cache, v))
    /\ UNCHANGED <<shape, ranges, lib, grad_cache, lib0>>

\* PhotonLib.gradient: the cache when there is one, else gradient_on_fly,
\* which runs _gradient_on_fly for the voxel
Gradient(t) ==
    /\ Idle(t)
    /\ \E v \in 0..(len_meta - 1) :
         IF grad_cache # None
         THEN Finish(t, [op |-> "gradient", voxel_id |-> v, cache |-> grad_cache,
                         mode |-> "cache"] @@ gradient_from_cache(grad_cache, v))
         ELSE /\ frame' = [frame EXCEPT ![t] =
                     [op |-> "gradient", voxel_id |-> v, lib_arg |-> "np",
                      body_raises |-> FALSE, cache |-> grad_cache, mode |-> "on_fly",
                      entry_lib |-> lib, prev_lib |-> lib, seen |-> None,
                      err |-> "none"]]
              /\ pc' = [pc EXCEPT ![t] = "L225"]
    /\ UNCHANGED <<shape, ranges, lib, grad_cache, lib0>>

\* PhotonLib.grad_view
grad_view(cache, d_axis) ==
    IF cache = None
    THEN [err |-> "NotImplementedError"]
    ELSE LET sel == select_axis(d_axis)
         IN IF sel.err # "none" THEN [err |-> sel.err]
            ELSE [err |-> "none", ret |-> <<"view", cache, sel.axis>>]

GradView(t) ==
    /\ Idle(t)
    /\ \E axis \in Selectors :
         Finish(t, [op |-> "grad_view", axis |-> axis, cache |-> grad_cache]
                     @@ grad_view(grad_cache, axis))
    /\ UNCHANGED <<shape, ranges, lib, grad_cache, lib0>>

\* the assignment plib.grad_cache = <array> by the owner of the library
SetGradCache(t) ==
    /\ Idle(t)
    /\ grad_cache = None
    /\ grad_cache' = "grad_cache"
    /\ UNCHANGED <<shape, ranges, lib, pc, frame, lib0>>

\* line 225: self.lib = lib
L225(t) ==
    /\ pc[t] = "L225"
    /\ lib' = frame[t].lib_arg
    /\ pc' = [pc EXCEPT ![t] = "L227"]
    /\ UNCHANGED <<shape, ranges, grad_cache, frame, lib0>>

\* line 227: yield self; the body of the with statement runs and reads
\* self.lib (in _gradient_on_fly, line 338: voxel_to_idx)
L227(t) ==
    /\ pc[t] = "L227"
    /\ LET f == frame[t]
       IN frame' = [frame EXCEPT ![t] =
            IF f.op = "use_lib"
            THEN [f EXCEPT !.seen = lib,
                           !.err = IF f.body_raises THEN "Exception" ELSE "none"]
            ELSE [idx |-> voxel_to_idx(f.voxel_id)] @@ [f EXCEPT !.seen = lib]]
    /\ pc' = [pc EXCEPT ![t] = "L229"]
    /\ UNCHANGED <<shape, ranges, lib, grad_cache, lib0>>

\* a[slice(l, h)] on an axis of length n, for l, h >= 0
PySlice(l, h, n) == {i \in 0..(n - 1) : l <= i /\ i < h}

\* PhotonLib._gradient_on_fly, lines 340-349: the window around idx
window_centre1(idx) ==
    LET low == [a \in Axes |-> IF idx[a] - 1 < 0 THEN 0 ELSE idx[a] - 1]
        high == [a \in Axes |-> idx[a] + 2]
    IN [center |-> [a \in Axes |-> 1], low |-> low, high |-> high,
        selected |-> [a \in Axes |-> PySlice(low[a], high[a], shape[a])]]
window(idx) ==
    LET center == [a \in Axes |-> IF idx[a] = 0 THEN 0 ELSE 1]
        high == [a \in Axes |-> idx[a] + 2]
        low == [a \in Axes |-> IF idx[a] - 1 < 0 THEN 0 ELSE idx[a] - 1]
    IN [center |-> center, low |-> low, high |-> high,
        selected |-> [a \in Axes |-> PySlice(low[a], high[a], shape[a])]]

\* line 229: finally: self.lib = prev_lib; _gradient_on_fly goes on to the
\* window and returns
L229(t) ==
    /\ pc[t] = "L229"
    /\ lib' = frame[t].prev_lib
    /\ Finish(t, IF frame[t].op = "use_lib" THEN frame[t]
                 ELSE window(frame[t].idx) @@ frame[t])
    /\ UNCHANGED <<shape, ranges, grad_cache, lib0>>

\* ----------------------------------------------------- Meta.self_check
\* np.linspace(lo, hi, n + 1)[k]
linspace(a, k) == FAdd(I2F(ranges[a][1]), FMul(I2F(k), voxel_size[a]))
\* np.digitize(x, bins): the number of bin edges <= x
np_digitize(x, a) == Cardinality({k \in 0..shape[a] : FLe(linspace(a, k), x)})

\* np.random.uniform(low, high): a value of [low, high]; high itself may be
\* returned through rounding
Uniform ==
    {pos \in [Axes -> Coord1] :
        \A a \in Axes : /\ ~IsHuge(pos[a])
                        /\ FLe(I2F(ranges[a][1]), pos[a])
                        /\ FLe(pos[a], I2F(ranges[a][2]))}

\* lines 166-182: one iteration; the error it raises, or "none"
self_check_iter(pos, vox2) ==
    LET idx == [a \in Axes |-> np_digitize(pos[a], a) - 1]
        vox == idx_to_voxel(idx)
        coord == voxel_to_coord(vox, FALSE)
        idx2 == voxel_to_idx(vox2)
    IN IF idx # voxel_to_idx(vox) THEN "voxel_to_idx"
       ELSE IF ~(\A a \in Axes : FLt(FAbs(FSub(coord[a], pos[a])), voxel_size[a]))
       THEN "voxel_to_coord"
       ELSE IF vox2 # idx_to_voxel(idx2) THEN "idx_to_voxel"
       ELSE "none"

\* line 158 (call and prev_lib = self.lib); n_is_int: whether range(n) accepts n
SelfCheck(t) ==
    /\ Idle(t)
    /\ \E n \in 0..MaxIter, isint \in BOOLEAN :
         frame' = [frame EXCEPT ![t] =
                     [op |-> "self_check", n |-> n, n_is_int |-> isint, count |-> 0,
                      entry_lib |-> lib, prev_lib |-> lib, err |-> "none"]]
    /\ pc' = [pc EXCEPT ![t] = "L161"]
    /\ UNCHANGED <<shape, ranges, lib, grad_cache, lib0>>

\* line 161: self.lib = np
L161(t) ==
    /\ pc[t] = "L161"
    /\ lib' = "np"
    /\ pc' = [pc EXCEPT ![t] = "L165"]
    /\ UNCHANGED <<shape, ranges, grad_cache, frame, lib0>>

\* lines 165-182: for __ in tqdm(range(n)): one iteration, or the end of the
\* loop; an exception leaves self_check at once
L165(t) ==
    /\ pc[t] = "L165"
    /\ IF ~frame[t].n_is_int
       THEN Finish(t, [frame[t] EXCEPT !.err = "TypeError"])
       ELSE IF frame[t].count < frame[t].n
       THEN \E pos \in Uniform, vox2 \in 0..(len_meta - 1) :
              LET e == self_check_iter(pos, vox2)
              IN IF e = "none"
                 THEN /\ frame' = [frame EXCEPT ![t].count = @ + 1]
                      /\ pc' = pc
                 ELSE Finish(t, [pos |-> pos, failed |-> e]
                                  @@ [frame[t] EXCEPT !.err = "NameError"])
       ELSE /\ pc' = [pc EXCEPT ![t] = "L184"]
            /\ frame' = frame
    /\ UNCHANGED <<shape, ranges, lib, grad_cache, lib0>>

\* line 184: self.lib = prev_lib
L184(t) ==
    /\ pc[t] = "L184"
    /\ lib' = frame[t].prev_lib
    /\ Finish(t, frame[t])
    /\ UNCHANGED <<shape, ranges, grad_cache, lib0>>

\* ------------------------------------------- PhotonLib.view and save
\* An array is [shape, data]: data holds the elements in C order.
Prod(shp) == IF Len(shp) = 0 THEN 1
             ELSE IF Len(shp) = 1 THEN shp[1]
             ELSE IF Len(shp) = 2 THEN shp[1] * shp[2]
             ELSE IF Len(shp) = 3 THEN shp[1] * shp[2] * shp[3]
             ELSE shp[1] * shp[2] * shp[3] * shp[4]

\* arr.reshape(shp): the last entry of shp may be -1
reshape(arr, shp) ==
    LET k == Len(shp)
        known == Prod(SubSeq(shp, 1, k - 1))
        last == IF shp[k] = -1 THEN Len(arr.data) \div known ELSE shp[k]
    IN [shape |-> [i \in 1..k |-> IF i = k THEN last ELSE shp[i]], data |-> arr.data]

\* a[i, j, k, s] and a[v, s]
At4(a, i, j, k, s) ==
    a.data[((i * a.shape[2] + j) * a.shape[3] + k) * a.shape[4] + s + 1]
At2(a, v, s) == a.data[v * a.shape[2] + s + 1]

\* np.swapaxes(a, 0, 2) of a 4-d array
swapaxes(a) ==
    LET shp == <<a.shape[3], a.shape[2], a.shape[1], a.shape[4]>>
    IN [shape |-> shp,
        data |-> [m \in 1..Len(a.data) |->
                    LET l == m - 1
                        s == l % shp[4]
                        k == (l \div shp[4]) % shp[3]
                        j == (l \div (shp[4] * shp[3])) % shp[2]
                        i == l \div (shp[4] * shp[3] * shp[2])
                    IN At4(a, k, j, i, s)]]

\* PhotonLib.view
view_noswap(arr) == reshape(arr, <<nx, ny, nz, -1>>)
view(arr) == swapaxes(reshape(arr, <<nz, ny, nx, -1>>))

\* PhotonLib.save: the datasets written to the file
save(vis, eff) ==
    LET flat == IF Len(vis.shape) = 4
                THEN reshape(swapaxes(vis), <<len_meta, -1>>)
                ELSE vis
    IN [numvox |-> shape,
        min |-> [a \in Axes |-> ranges[a][1]],
        max |-> [a \in Axes |-> ranges[a][2]],
        vis |-> flat] @@ (IF eff = None THEN <<>> ELSE [eff |-> eff])

\* arrays whose elements are all different
Fill == {"up", "down"}
Array(shp, fill) ==
    [shape |-> shp,
     data |-> [m \in 1..Prod(shp) |-> IF fill = "up" THEN m ELSE Prod(shp) + 1 - m]]

View(t) ==
    /\ Idle(t)
    /\ \E ns \in 1..MaxPmts, fill \in Fill :
         LET arr == Array(<<len_meta, ns>>, fill)
         IN Finish(t, [op |-> "view", arr |-> arr, err |-> "none", ret |-> view(arr)])
    /\ UNCHANGED <<shape, ranges, lib, grad_cache, lib0>>

Save(t) ==
    /\ Idle(t)
    /\ \E ns \in 1..MaxPmts, fill \in Fill, ndim \in {2, 4}, eff \in {None, "eff"} :
         LET vis == IF ndim = 4 THEN Array(<<nx, ny, nz, ns>>, fill)
                    ELSE Array(<<len_meta, ns>>, fill)
         IN Finish(t, [op |-> "save", vis |-> vis, err |-> "none", ret |-> save(vis, eff)])
    /\ UNCHANGED <<shape, ranges, lib, grad_cache, lib0>>

\* ------------------------------------------- the range compression
\* The codec's numbers: Pow(e) is 10^e and Diff(e, f) is 10^e - 10^f, with
\* e and f fractions; log10 and power are exact on them.
Pow(e) == [pow |-> e]
Diff(e, f) == [pow |-> e, minus |-> f]
\* (10^e - 10^f) + 10^f
PlusEps(x, eps) == Pow(x.pow)
log10(p) == p.pow
power10(e) == Pow(e)
\* 10^e - 10^f
MinusEps(p, eps) == Diff(p.pow, eps.pow)

\* PhotonLib.transform
transform(x, vmax, eps, sin_out) ==
    LET y0 == log10(eps)
        y1 == log10(PlusEps(vmax, eps))
        y == FDiv(FSub(log10(PlusEps(x, eps)), y0), FSub(y1, y0))
    IN IF sin_out THEN FSub(FMul(I2F(2), y), I2F(1)) ELSE y

\* PhotonLib.inv_transform
inv_transform_nosin(y, vmax, eps, sin_out) ==
    LET y0 == log10(eps)
        y1 == log10(PlusEps(vmax, eps))
    IN MinusEps(power10(FAdd(FMul(y, FSub(y1, y0)), y0)), eps)
inv_transform(y, vmax, eps, sin_out) ==
    LET y0 == log10(eps)
        y1 == log10(PlusEps(vmax, eps))
        yy == IF sin_out THEN FDiv(FAdd(y, I2F(1)), I2F(2)) ELSE y
    IN MinusEps(power10(FAdd(FMul(yy, FSub(y1, y0)), y0)), eps)

\* PhotonLib.partial_transform: functools.partial binds kwargs to each
partial_transform(kwargs) ==
    <<[func |-> "transform", kwargs |-> kwargs],
      [func |-> "inv_transform", kwargs |-> kwargs]>>

\* calling a partial
Apply(p, x) ==
    IF p.func = "transform"
    THEN transform(x, p.kwargs.vmax, p.kwargs.eps, p.kwargs.sin_out)
    ELSE inv_transform(x, p.kwargs.vmax, p.kwargs.eps, p.kwargs.sin_out)

\* eps = 10^k0 > 0 and vmax = 10^k1 - 10^k0 > 0; x = 10^k - eps >= 0
Exps == -MaxExp..MaxExp
Kwargs ==
    {[vmax |-> Diff(I2F(k1), I2F(k0)), eps |-> Pow(I2F(k0)), sin_out |-> b] :
        k0 \in Exps, k1 \in Exps, b \in BOOLEAN}
Positive(kw) == FLt(kw.vmax.minus, kw.vmax.pow)
Xs(kw) == {Diff(I2F(k), kw.eps.pow) : k \in {e \in Exps : FLe(kw.eps.pow, I2F(e))}}
Ys == {Frac(k, 2) : k \in -2..3}

Transform(t) ==
    /\ Idle(t)
    /\ \E kw \in Kwargs :
         /\ Positive(kw)
         /\ \E x \in Xs(kw) :
              Finish(t, [op |-> "transform", x |-> x, kwargs |-> kw, err |-> "none",
                         ret |-> transform(x, kw.vmax, kw.eps, kw.sin_out)])
    /\ UNCHANGED <<shape, ranges, lib, grad_cache, lib0>>

InvTransform(t) ==
    /\ Idle(t)
    /\ \E kw \in Kwargs :
         /\ Positive(kw)
         /\ \E y \in Ys :
              Finish(t, [op |-> "inv_transform", y |-> y, kwargs |-> kw, err |-> "none",
                         ret |-> inv_transform(y, kw.vmax, kw.eps, kw.sin_out)])
    /\ UNCHANGED <<shape, ranges, lib, grad_cache, lib0>>

\* PhotonLib.__init__ with transform=True, lines 274-282: the pair of
\* partial_transform is kept and log_func is applied to vis (one element)
InitTransform(t) ==
    /\ Idle(t)
    /\ \E kw \in Kwargs :
         /\ Positive(kw)
         /\ \E x \in Xs(kw) :
              LET fs == partial_transform(kw)
              IN Finish(t, [op |-> "__init__", raw |-> x, kwargs |-> kw, err |-> "none",
                            log_func |-> fs[1], antilog_func |-> fs[2],
                            vis |-> Apply(fs[1], x)])
    /\ UNCHANGED <<shape, ranges, lib, grad_cache, lib0>>

\* the caller takes the result: the call is over
Return(t) ==
    /\ pc[t] = "done"
    /\ pc' = [pc EXCEPT ![t] = "idle"]
    /\ frame' = [frame EXCEPT ![t] = NoFrame]
    /\ UNCHANGED <<shape, ranges, lib, grad_cache, lib0>>

\* ------------------------------------------------------------ claims
F(t) == frame[t]
Done(t, o) == pc[t] = "done" /\ frame[t].op = o

\* C1: for every voxel id v in [0, N), voxel_to_idx(v) is a valid index,
\* v = ix + iy*nx + iz*nx*ny, and idx_to_voxel(voxel_to_idx(v)) = v; every
\* valid index is mapped by idx_to_voxel to an id in [0, N) that voxel_to_idx
\* maps back to it.
C1_Bijection ==
    \A t \in Callers :
        /\ Done(t, "voxel_to_idx") =>
              /\ check_valid_idx(F(t).ret)
              /\ F(t).voxel = F(t).ret[0] + F(t).ret[1] * nx + F(t).ret[2] * nx * ny
              /\ idx_to_voxel(F(t).ret) = F(t).voxel
        /\ Done(t, "idx_to_voxel") =>
              /\ F(t).ret \in 0..(len_meta - 1)
              /\ voxel_to_idx(F(t).ret) = F(t).idx

C1_Witness ==
    /\ Done(Main, "voxel_to_idx")
    /\ F(Main).voxel = len_meta - 1
    /\ F(Main).ret[0] > 0 /\ F(Main).ret[1] > 0 /\ F(Main).ret[2] > 0

\* the bounds of an axis in the coordinates of the call
AxisMin(a, norm) == IF norm THEN I2F(-1) ELSE I2F(ranges[a][1])
AxisMax(a, norm) == IF norm THEN I2F(1) ELSE I2F(ranges[a][2])

\* C2: coord_to_idx always returns a valid index; on each axis a coordinate
\* below the minimum yields 0 and a coordinate at or above the maximum
\* yields shape - 1.
C2_ClampTotal ==
    \A t \in Callers :
        Done(t, "coord_to_idx") =>
            /\ F(t).err = "none"
            /\ check_valid_idx(F(t).ret)
            /\ \A a \in Axes :
                 /\ FLt(F(t).coord[a], AxisMin(a, F(t).norm)) => F(t).ret[a] = 0
                 /\ FLe(AxisMax(a, F(t).norm), F(t).coord[a]) => F(t).ret[a] = shape[a] - 1

\* coord_to_idx always returns a valid index, and clamps as C2 says every
\* coordinate whose scaled offset lies in the int64 range
C2_ValidIndex ==
    \A t \in Callers :
        Done(t, "coord_to_idx") =>
            /\ F(t).err = "none"
            /\ check_valid_idx(F(t).ret)
            /\ \A a \in Axes :
                 ~IsHuge(F(t).coord[a]) =>
                    /\ FLt(F(t).coord[a], AxisMin(a, F(t).norm)) => F(t).ret[a] = 0
                    /\ FLe(AxisMax(a, F(t).norm), F(t).coord[a])
                          => F(t).ret[a] = shape[a] - 1

\* C3: for a physical coordinate p inside the bounding box the centre of the
\* voxel coord_to_voxel(p) is less than one voxel size away from p on every
\* axis, and the cell of that voxel contains p.
Inside(coord) ==
    \A a \in Axes : /\ ~IsHuge(coord[a])
                    /\ FLe(I2F(ranges[a][1]), coord[a])
                    /\ FLe(coord[a], I2F(ranges[a][2]))
C3_RoundTrip ==
    \A t \in Callers :
        (Done(t, "coord_to_voxel") /\ ~F(t).norm /\ Inside(F(t).coord)) =>
            LET centre == voxel_to_coord(F(t).ret, FALSE)
                idx == voxel_to_idx(F(t).ret)
            IN \A a \in Axes :
                 /\ FLt(FAbs(FSub(centre[a], F(t).coord[a])), voxel_size[a])
                 /\ FLe(FAdd(I2F(ranges[a][1]), FMul(I2F(idx[a]), voxel_size[a])),
                        F(t).coord[a])
                 /\ FLe(F(t).coord[a],
                        FAdd(I2F(ranges[a][1]), FMul(I2F(idx[a] + 1), voxel_size[a])))

\* p on the upper bound of axis 0 and on an inner cell edge of axis 1
C3_Witness ==
    /\ Done(Main, "coord_to_voxel") /\ ~F(Main).norm /\ Inside(F(Main).coord)
    /\ shape[0] > 1 /\ shape[1] > 1
    /\ FEq(F(Main).coord[0], I2F(ranges[0][2]))
    /\ FEq(F(Main).coord[1], FAdd(I2F(ranges[1][1]), voxel_size[1]))
    /\ voxel_to_idx(F(Main).ret)[0] = shape[0] - 1
    /\ voxel_to_idx(F(Main).ret)[1] = 1

\* C7: select_axis returns (0, [1,2]), (1, [0,2]), (2, [0,1]) for 0/'x',
\* 1/'y', 2/'z' and raises for every other selector; idx_at and digitize
\* raise for every selector select_axis raises for.
Accepted(axis) ==
    \/ IsInt(axis) /\ axis.int \in {0, 1, 2}
    \/ IsStr(axis) /\ axis.str \in {"x", "y", "z"}
AxisNum(axis) ==
    IF IsInt(axis) THEN axis.int
    ELSE IF axis.str = "x" THEN 0 ELSE IF axis.str = "y" THEN 1 ELSE 2
OtherAxes(n) == IF n = 0 THEN <<1, 2>> ELSE IF n = 1 THEN <<0, 2>> ELSE <<0, 1>>
C7_SelectAxis ==
    \A t \in Callers :
        /\ Done(t, "select_axis") =>
              IF Accepted(F(t).axis)
              THEN /\ F(t).err = "none"
                   /\ F(t).axis_ret = AxisNum(F(t).axis)
                   /\ F(t).axis_others = OtherAxes(AxisNum(F(t).axis))
              ELSE F(t).err # "none"
        /\ (pc[t] = "done" /\ F(t).op \in {"idx_at", "digitize", "grad_view"}) =>
              (Accepted(F(t).axis) \/ F(t).err # "none")

C7_Witness ==
    /\ Done(Main, "select_axis")
    /\ F(Main).axis = [int |-> -1]
    /\ F(Main).err = "IndexError"

\* equality of two codec numbers
SameNum(u, v) ==
    /\ DOMAIN u = DOMAIN v
    /\ FEq(u.pow, v.pow)
    /\ ("minus" \in DOMAIN u) => FEq(u.minus, v.minus)

\* C4 as stated: without a gradient cache every gradient query that may use
\* the cache (gradient_from_cache, grad_view, gradient) ends in an error:
\* none returns a gradient computed in the other mode.
C4_NoFallback ==
    \A t \in Callers :
        (/\ pc[t] = "done"
         /\ F(t).op \in {"gradient_from_cache", "grad_view", "gradient"}
         /\ F(t).cache = None)
        => F(t).err # "none"

\* C4 amended: without a gradient cache gradient_from_cache and grad_view
\* end in an error and return nothing; gradient(voxel_id) reads the cache
\* exactly when there is one and computes on the fly when there is none.
C4_CacheModes ==
    \A t \in Callers :
        /\ (/\ pc[t] = "done"
            /\ F(t).op \in {"gradient_from_cache", "grad_view"}
            /\ F(t).cache = None)
           => (F(t).err # "none" /\ "ret" \notin DOMAIN F(t))
        /\ Done(t, "gradient_from_cache") /\ F(t).cache # None
           => (F(t).err = "none" /\ F(t).ret = <<F(t).cache, F(t).voxel_id>>)
        /\ Done(t, "gradient") =>
              /\ F(t).err = "none"
              /\ F(t).mode = "cache" <=> F(t).cache # None
              /\ F(t).mode = "cache" => F(t).ret = <<F(t).cache, F(t).voxel_id>>
              /\ F(t).mode = "on_fly" => "selected" \in DOMAIN F(t)

C4_Witness ==
    /\ Done(Main, "gradient_from_cache")
    /\ F(Main).cache = None
    /\ F(Main).err = "NameError"

\* C5: under any interleaving of callers of use_lib and _gradient_on_fly
\* each caller's body sees the backend it asked for, and once no scope is
\* open Meta.lib is the value it had before any scope was opened.
InScope(t) ==
    \/ F(t).op \in {"use_lib", "_gradient_on_fly"}
    \/ F(t).op = "gradient" /\ F(t).mode = "on_fly"
C5_ConcurrentSafe ==
    /\ \A t \in Callers :
          (pc[t] \in {"L229", "done"} /\ InScope(t)) => F(t).seen = F(t).lib_arg
    /\ (\A t \in Callers : pc[t] \in {"idle", "done"}) => lib = lib0

\* C6: when use_lib, _gradient_on_fly or self_check has ended, by return or
\* by an exception, Meta.lib is what it was when the operation started.
C6_RestoredOnExit ==
    \A t \in Callers :
        (pc[t] = "done" /\ (InScope(t) \/ F(t).op = "self_check"))
        => lib = F(t).entry_lib

\* C6 for the scope of use_lib alone (also when its body raises)
C6_UseLibRestores ==
    \A t \in Callers :
        (pc[t] = "done" /\ InScope(t)) => lib = F(t).entry_lib

\* C8: view(arr)[ix, iy, iz, s] = arr[idx_to_voxel((ix, iy, iz)), s], the
\* view has shape (nx, ny, nz, num_sensors), and the flattening of save is
\* the inverse of view in both directions.
C8_ViewAddressing ==
    \A t \in Callers :
        /\ Done(t, "view") =>
              LET ns == F(t).arr.shape[2]
              IN /\ F(t).ret.shape = <<nx, ny, nz, ns>>
                 /\ \A idx \in [Axes -> 0..(MaxDim - 1)], s \in 0..(ns - 1) :
                      check_valid_idx(idx) =>
                        At4(F(t).ret, idx[0], idx[1], idx[2], s)
                          = At2(F(t).arr, idx_to_voxel(idx), s)
                 /\ save(F(t).ret, None).vis = F(t).arr
        /\ (Done(t, "save") /\ Len(F(t).vis.shape) = 4) =>
              /\ F(t).ret.vis.shape = <<len_meta, F(t).vis.shape[4]>>
              /\ view(F(t).ret.vis) = F(t).vis

C8_Witness ==
    /\ Done(Main, "view")
    /\ nx # nz /\ ny > 1
    /\ F(Main).arr.shape[2] > 1
    /\ F(Main).ret.shape = <<nx, ny, nz, F(Main).arr.shape[2]>>

\* C9: inv_transform(transform(x)) = x for every x >= 0 and every
\* (vmax > 0, eps > 0, sin_out), transform(inv_transform(y)) = y, and the
\* two functions of partial_transform bind the same (vmax, eps, sin_out),
\* so that antilog_func undoes log_func.
C9_Invertible ==
    \A t \in Callers :
        /\ Done(t, "transform") =>
              SameNum(inv_transform(F(t).ret, F(t).kwargs.vmax, F(t).kwargs.eps,
                                    F(t).kwargs.sin_out), F(t).x)
        /\ Done(t, "inv_transform") =>
              FEq(transform(F(t).ret, F(t).kwargs.vmax, F(t).kwargs.eps,
                            F(t).kwargs.sin_out), F(t).y)
        /\ Done(t, "__init__") =>
              /\ F(t).log_func.kwargs = F(t).kwargs
              /\ F(t).antilog_func.kwargs = F(t).kwargs
              /\ SameNum(Apply(F(t).antilog_func, F(t).vis), F(t).raw)

\* x = 0 with sin_out, where transform returns -1
C9_Witness ==
    /\ Done(Main, "transform")
    /\ F(Main).kwargs.sin_out
    /\ FEq(F(Main).x.pow, F(Main).x.minus)
    /\ FEq(F(Main).ret, I2F(-1))

Init ==
    /\ shape \in Shapes
    /\ ranges \in RangeChoices
    /\ lib \in Libs
    /\ lib0 = lib
    /\ grad_cache = None
    /\ pc = [t \in Callers |-> "idle"]
    /\ frame = [t \in Callers |-> NoFrame]

Next ==
    \/ VoxelToIdx(Main)
    \/ IdxToVoxel(Main)
    \/ CoordToIdx(Main)
    \/ CoordToVoxel(Main)
    \/ SelectAxis(Main)
    \/ IdxAt(Main)
    \/ Digitize(Main)
    \/ GradientFromCache(Main)
    \/ Gradient(Main)
    \/ GradView(Main)
    \/ SetGradCache(Main)
    \/ GradientOnFly(Main)
    \/ UseLib(Main)
    \/ L225(Main)
    \/ L227(Main)
    \/ L229(Main)
    \/ View(Main)
    \/ Save(Main)
    \/ Transform(Main)
    \/ InvTransform(Main)
    \/ InitTransform(Main)
    \/ SelfCheck(Main)
    \/ L161(Main)
    \/ L165(Main)
    \/ L184(Main)
    \/ Return(Main)

Spec == Init /\ [][Next]_vars

\* concurrent queries on one shared Meta
InitConc ==
    /\ Init
    /\ shape = [a \in Axes |-> MaxDim]
    /\ ranges = [a \in Axes |-> <<-1, 1>>]

NextConc ==
    \E t \in Callers :
        \/ UseLib(t)
        \/ GradientOnFly(t)
        \/ L225(t)
        \/ L227(t)
        \/ L229(t)
        \/ Return(t)

SpecConc == InitConc /\ [][NextConc]_vars

=============================================================================
